---------------------------- MODULE Spec2Model ----------------------------
(***************************************************************************)
(* Model of pkg/secretsmanager/vault_secretmanager.go: the HashiCorp Vault *)
(* KV v2 adapter of secret-agent (newVault, EnsureSecret, LoadSecret,      *)
(* CloseClient and the per-type byte/string conversions).                  *)
(*                                                                         *)
(* A Go []byte and a Go string are both modelled as a sequence of byte     *)
(* values 0..255; string(data) and []byte(data) keep the bytes.  Secret    *)
(* names, paths, configuration values and type tags are TLA+ strings.      *)
(* An error is a sequence of messages, outermost wrapper first; the nil    *)
(* error is the empty sequence.                                            *)
(***************************************************************************)
EXTENDS Integers, Sequences, FiniteSets, TLC

(***************************************************************************)
(* Bounds of the model.                                                    *)
(***************************************************************************)
\* longest binary payload handed to EnsureSecret
MaxLen == 3
\* number of goroutines sharing the handle in the concurrent specification
NumCallers == 2

(***************************************************************************)
(* Package-level values.                                                   *)
(***************************************************************************)
DefaultVaultKVSecretPath == "kube/fr/secret"
DefaultVaultAddress == "http://vault-active.vault.svc.cluster.local:8200"
DefaultVaultKubeRoleName == "fr-secret-agent"
DefaultSecretKey == "value"
DefaultKVMount == "secret"

\* secret-type tags, declared elsewhere in package secretsmanager
TypeKeystore == "keystore"
TypePEM == "pem"
TypePassword == "password"

Nil == <<>>

(***************************************************************************)
(* encoding/base64, StdEncoding (RFC 4648 alphabet, '=' padding, decoder   *)
(* not strict, '\r' and '\n' ignored), as called at lines 154/160 and      *)
(* 171/177.                                                                *)
(***************************************************************************)
PadChar == 61
LF == 10
CR == 13

\* the alphabet: 6-bit value -> ASCII code of its character
B64Char(i) ==
  IF i < 26 THEN 65 + i
  ELSE IF i < 52 THEN 97 + (i - 26)
  ELSE IF i < 62 THEN 48 + (i - 52)
  ELSE IF i = 62 THEN 43
  ELSE 47

\* decodeMap: ASCII code -> 6-bit value, 255 for a byte outside the alphabet
B64Val(c) ==
  IF c >= 65 /\ c <= 90 THEN c - 65
  ELSE IF c >= 97 /\ c <= 122 THEN c - 97 + 26
  ELSE IF c >= 48 /\ c <= 57 THEN c - 48 + 52
  ELSE IF c = 43 THEN 62
  ELSE IF c = 47 THEN 63
  ELSE 255

Tail3(s) == SubSeq(s, 4, Len(s))
Tail4(s) == SubSeq(s, 5, Len(s))

RECURSIVE EncodeToString(_)
EncodeToString(d) ==
  IF Len(d) = 0 THEN <<>>
  ELSE IF Len(d) = 1 THEN
    << B64Char(d[1] \div 4), B64Char((d[1] % 4) * 16), PadChar, PadChar >>
  ELSE IF Len(d) = 2 THEN
    << B64Char(d[1] \div 4), B64Char((d[1] % 4) * 16 + d[2] \div 16),
       B64Char((d[2] % 16) * 4), PadChar >>
  ELSE
    << B64Char(d[1] \div 4), B64Char((d[1] % 4) * 16 + d[2] \div 16),
       B64Char((d[2] % 16) * 4 + d[3] \div 64), B64Char(d[3] % 64) >>
    \o EncodeToString(Tail3(d))

\* the decoder skips '\r' and '\n' wherever they stand
RECURSIVE StripNewlines(_)
StripNewlines(s) ==
  IF Len(s) = 0 THEN <<>>
  ELSE IF s[1] = LF \/ s[1] = CR THEN StripNewlines(Tail(s))
  ELSE <<s[1]>> \o StripNewlines(Tail(s))

CorruptInputError == <<"illegal base64 data">>

\* the bytes of one quantum of dlen 6-bit values (dlen in 2..4)
QuantumBytes(v1, v2, v3, v4, dlen) ==
  LET b1 == v1 * 4 + v2 \div 16
      b2 == (v2 % 16) * 16 + v3 \div 4
      b3 == (v3 % 4) * 64 + v4
  IN IF dlen = 4 THEN <<b1, b2, b3>>
     ELSE IF dlen = 3 THEN <<b1, b2>>
     ELSE <<b1>>

\* index of the first byte among s[1..n] outside the alphabet, 0 if none
FirstNonAlpha(s, n) ==
  IF \E i \in 1..n : B64Val(s[i]) = 255
  THEN CHOOSE i \in 1..n : /\ B64Val(s[i]) = 255
                           /\ \A k \in 1..(i - 1) : B64Val(s[k]) # 255
  ELSE 0

\* Decode over an input without newlines: [bytes, err], the bytes being
\* those written before the error, as DecodeString returns them.
RECURSIVE DecodeQuanta(_)
DecodeQuanta(s) ==
  IF Len(s) = 0 THEN [bytes |-> <<>>, err |-> Nil]
  ELSE
    LET n == IF Len(s) < 4 THEN Len(s) ELSE 4
        k == FirstNonAlpha(s, n)
        j == k - 1
    IN IF k = 0 THEN
         IF n < 4 THEN [bytes |-> <<>>, err |-> CorruptInputError]
         ELSE LET rest == DecodeQuanta(Tail4(s))
              IN [bytes |-> QuantumBytes(B64Val(s[1]), B64Val(s[2]),
                                         B64Val(s[3]), B64Val(s[4]), 4)
                            \o rest.bytes,
                  err |-> rest.err]
       ELSE IF s[k] # PadChar THEN [bytes |-> <<>>, err |-> CorruptInputError]
       ELSE IF j < 2 THEN [bytes |-> <<>>, err |-> CorruptInputError]
       ELSE IF j = 2 THEN
         IF Len(s) < 4 \/ s[4] # PadChar
         THEN [bytes |-> <<>>, err |-> CorruptInputError]
         ELSE [bytes |-> QuantumBytes(B64Val(s[1]), B64Val(s[2]), 0, 0, 2),
               err |-> IF Len(s) > 4 THEN CorruptInputError ELSE Nil]
       ELSE [bytes |-> QuantumBytes(B64Val(s[1]), B64Val(s[2]), B64Val(s[3]), 0, 3),
             err |-> IF Len(s) > 4 THEN CorruptInputError ELSE Nil]

DecodeString(s) == DecodeQuanta(StripNewlines(s))

(***************************************************************************)
(* The adapter's pure helpers.                                             *)
(***************************************************************************)
\* getSecretPath return full secret path
getSecretPath(secretPath, secretName) == secretPath \o "/" \o secretName

\* base64 text without its trailing '=' (what RawStdEncoding writes)
RECURSIVE StripPad(_)
StripPad(s) ==
  IF Len(s) > 0 /\ s[Len(s)] = PadChar THEN StripPad(SubSeq(s, 1, Len(s) - 1))
  ELSE s

\* getSecretStrValue encoding without padding
getSecretStrValue_rawStd(data, secretType) ==
  CASE secretType = TypeKeystore -> StripPad(EncodeToString(data))
    [] secretType = TypePEM -> data
    [] secretType = TypePassword -> data
    [] OTHER -> StripPad(EncodeToString(data))

\* getSecretStrValue whose default case keeps the bytes as they are
getSecretStrValue_defaultRaw(data, secretType) ==
  CASE secretType = TypeKeystore -> EncodeToString(data)
    [] secretType = TypePEM -> data
    [] secretType = TypePassword -> data
    [] OTHER -> data

\* getSecretStrValue format bytes as string according to secret type
getSecretStrValue(data, secretType) ==
  CASE secretType = TypeKeystore -> EncodeToString(data)
    [] secretType = TypePEM -> data
    [] secretType = TypePassword -> data
    [] OTHER -> EncodeToString(data)

\* getSecretByteValue treating a decode failure like a missing secret
getSecretByteValue_softDecode(data, secretType) ==
  LET d == DecodeString(data)
      soft == IF d.err # Nil THEN [bytes |-> <<>>, err |-> Nil] ELSE d
  IN CASE secretType = TypeKeystore -> soft
       [] secretType = TypePEM -> [bytes |-> data, err |-> Nil]
       [] secretType = TypePassword -> [bytes |-> data, err |-> Nil]
       [] OTHER -> soft

\* getSecretByteValue format string as bytes according to secret type
getSecretByteValue(data, secretType) ==
  CASE secretType = TypeKeystore -> DecodeString(data)
    [] secretType = TypePEM -> [bytes |-> data, err |-> Nil]
    [] secretType = TypePassword -> [bytes |-> data, err |-> Nil]
    [] OTHER -> DecodeString(data)

\* errors.WithStack(err): err annotated with a stack trace
WithStack(err) == <<"withStack">> \o err

\* fmt.Errorf("<msg>: %w", err)
Errorf(msg, err) == <<msg>> \o err

(***************************************************************************)
(* Values.                                                                 *)
(***************************************************************************)
\* a nil pointer (no handle, no client, no secret, no auth info)
NilPtr == [nil |-> TRUE]

\* an interface{} holding a Go string
Str(s) == [kind |-> "string", s |-> s]
\* an interface{} holding a JSON number
Num == [kind |-> "number", s |-> <<>>]

\* v, ok := data[key].(string)
IsString(data, key) == key \in DOMAIN data /\ data[key].kind = "string"

(***************************************************************************)
(* The KV v2 backend behind vm.vaultClient.KVv2(mount): a map from         *)
(* (mount, path) to the data of the path's current version.  A call that   *)
(* the backend or the transport refuses (up = FALSE) applies nothing.      *)
(***************************************************************************)
KVKey(mount, path) == [mount |-> mount, path |-> path]

\* the errors the client library returns for a refused write and read and
\* for a path that holds no secret
ErrWrite == <<"vault: write failed">>
ErrRead == <<"vault: read failed">>
ErrSecretNotFound == <<"secret not found">>

(***************************************************************************)
(* The request body of Put is the data marshalled by encoding/json, which  *)
(* coerces a Go string to valid UTF-8: every byte that does not start a    *)
(* well-formed UTF-8 sequence is replaced by U+FFFD (EF BF BD).            *)
(***************************************************************************)
Cont(b) == b >= 128 /\ b <= 191
In(b, lo, hi) == b >= lo /\ b <= hi

\* length of the well-formed UTF-8 sequence at the head of s, 0 if none
RuneLen(s) ==
  LET n == Len(s)
      b1 == s[1]
  IN IF b1 < 128 THEN 1
     ELSE IF In(b1, 194, 223) /\ n >= 2 /\ Cont(s[2]) THEN 2
     ELSE IF b1 = 224 /\ n >= 3 /\ In(s[2], 160, 191) /\ Cont(s[3]) THEN 3
     ELSE IF b1 = 237 /\ n >= 3 /\ In(s[2], 128, 159) /\ Cont(s[3]) THEN 3
     ELSE IF (In(b1, 225, 236) \/ In(b1, 238, 239))
             /\ n >= 3 /\ Cont(s[2]) /\ Cont(s[3]) THEN 3
     ELSE IF b1 = 240 /\ n >= 4 /\ In(s[2], 144, 191) /\ Cont(s[3]) /\ Cont(s[4]) THEN 4
     ELSE IF In(b1, 241, 243) /\ n >= 4 /\ Cont(s[2]) /\ Cont(s[3]) /\ Cont(s[4]) THEN 4
     ELSE IF b1 = 244 /\ n >= 4 /\ In(s[2], 128, 143) /\ Cont(s[3]) /\ Cont(s[4]) THEN 4
     ELSE 0

ReplacementChar == <<239, 191, 189>>

RECURSIVE ToValidUTF8(_)
ToValidUTF8(s) ==
  IF Len(s) = 0 THEN <<>>
  ELSE LET n == RuneLen(s)
       IN IF n = 0 THEN ReplacementChar \o ToValidUTF8(Tail(s))
          ELSE SubSeq(s, 1, n) \o ToValidUTF8(SubSeq(s, n + 1, Len(s)))

\* the data as the backend receives it; the type tags of the model are
\* ASCII text, which the coercion leaves alone
Marshal(data) ==
  [f \in DOMAIN data |->
     IF f = DefaultSecretKey /\ data[f].kind = "string"
     THEN [kind |-> "string", s |-> ToValidUTF8(data[f].s)]
     ELSE data[f]]

Upsert(store, key, data) ==
  [k \in DOMAIN store \cup {key} |-> IF k = key THEN data ELSE store[k]]

\* a backend that files a second write to a path under a new path
KVPut_dup(store, mount, path, data, up) ==
  IF ~up THEN [store |-> store, err |-> ErrWrite]
  ELSE IF KVKey(mount, path) \in DOMAIN store
    THEN [store |-> Upsert(store, KVKey(mount, path \o "/2"), Marshal(data)),
          err |-> Nil]
    ELSE [store |-> Upsert(store, KVKey(mount, path), Marshal(data)), err |-> Nil]

\* KVv2(mount).Put(ctx, path, data)
KVPut(store, mount, path, data, up) ==
  IF up
  THEN [store |-> Upsert(store, KVKey(mount, path), Marshal(data)), err |-> Nil]
  ELSE [store |-> store, err |-> ErrWrite]

\* KVv2(mount).Get(ctx, path)
KVGet(store, mount, path, up) ==
  IF ~up THEN [secret |-> NilPtr, err |-> ErrRead]
  ELSE IF KVKey(mount, path) \notin DOMAIN store
    THEN [secret |-> NilPtr, err |-> ErrSecretNotFound]
    ELSE [secret |-> [Data |-> store[KVKey(mount, path)]], err |-> Nil]

(***************************************************************************)
(* State.                                                                  *)
(***************************************************************************)
VARIABLES
  cfg,      \* the AppConfig handed to newVault
  bpc,      \* newVault's position
  loc,      \* newVault's locals
  trace,    \* the library calls newVault has made, in order
  vm,       \* the handle newVault returned, NilPtr before and on failure
  bootErr,  \* the error newVault returned
  kv,       \* the remote KV v2 store
  ret,      \* the last completed EnsureSecret/LoadSecret/CloseClient call
  ensured,  \* per remote key, the arguments of the last EnsureSecret applied
  again,    \* the call just completed repeats the successful call before it
  pc,       \* concurrent callers: position of each goroutine in EnsureSecret
  frame,    \* concurrent callers: the locals of each goroutine's call
  lastPut   \* concurrent callers: per remote key, the goroutine whose Put
            \* was applied last

vars == << cfg, bpc, loc, trace, vm, bootErr, kv, ret, ensured, again, pc, frame,
          lastPut >>
bootVars == << cfg, bpc, loc, trace, vm, bootErr >>
concVars == << pc, frame, lastPut >>

Callers == 1..NumCallers

EmptyStore == [k \in {} |-> NilPtr]

NoCall ==
  [op |-> "none", secretName |-> "", secretType |-> "", value |-> <<>>,
   remote |-> <<>>, bytes |-> <<>>, err |-> Nil]

NoFrame ==
  [secretName |-> "", value |-> <<>>, secretType |-> "", payload |-> NilPtr,
   path |-> "", up |-> TRUE, err |-> Nil]

(***************************************************************************)
(* newVault, lines 32-90.                                                  *)
(***************************************************************************)
NoLocals ==
  [vaultAddr |-> "", vaultRole |-> "", vaultSecretPath |-> "", vaultKVMount |-> "",
   client |-> NilPtr, k8sAuth |-> NilPtr, authInfo |-> NilPtr]

\* lines 34-59, testing the path override where line 50 tests the mount override
Resolve_mountFromPath ==
  /\ bpc = "L34"
  /\ loc' = [loc EXCEPT
       !.vaultAddr = IF cfg.VaultAddress # "" THEN cfg.VaultAddress
                     ELSE DefaultVaultAddress,
       !.vaultRole = IF cfg.VaultKubeRole # "" THEN cfg.VaultKubeRole
                     ELSE DefaultVaultKubeRoleName,
       !.vaultSecretPath = IF cfg.VaultKVSecretPath # "" THEN cfg.VaultKVSecretPath
                           ELSE DefaultVaultKVSecretPath,
       !.vaultKVMount = IF cfg.VaultKVSecretPath # "" THEN cfg.VaultKVMount
                        ELSE DefaultKVMount]
  /\ bpc' = "L61"
  /\ UNCHANGED << cfg, trace, vm, bootErr, kv, ret, ensured, again, concVars >>

\* lines 34-59: override-or-default for the four fields
Resolve ==
  /\ bpc = "L34"
  /\ loc' = [loc EXCEPT
       !.vaultAddr = IF cfg.VaultAddress # "" THEN cfg.VaultAddress
                     ELSE DefaultVaultAddress,
       !.vaultRole = IF cfg.VaultKubeRole # "" THEN cfg.VaultKubeRole
                     ELSE DefaultVaultKubeRoleName,
       !.vaultSecretPath = IF cfg.VaultKVSecretPath # "" THEN cfg.VaultKVSecretPath
                           ELSE DefaultVaultKVSecretPath,
       !.vaultKVMount = IF cfg.VaultKVMount # "" THEN cfg.VaultKVMount
                        ELSE DefaultKVMount]
  /\ bpc' = "L61"
  /\ UNCHANGED << cfg, trace, vm, bootErr, kv, ret, ensured, again, concVars >>

\* lines 61-64: vault.NewClient(config), config.Address = vaultAddr
NewClient ==
  /\ bpc = "L61"
  /\ trace' = Append(trace, [fn |-> "NewClient", arg |-> loc.vaultAddr])
  /\ \E ok \in BOOLEAN :
       IF ok
       THEN /\ loc' = [loc EXCEPT !.client = [address |-> loc.vaultAddr]]
            /\ bpc' = "L72"
            /\ UNCHANGED << vm, bootErr >>
       ELSE /\ bootErr' = Errorf("Vault: unable to initialize Vault client",
                                 <<"NewClient failed">>)
            /\ vm' = NilPtr
            /\ bpc' = "returned"
            /\ UNCHANGED loc
  /\ UNCHANGED << cfg, kv, ret, ensured, again, concVars >>

\* lines 72-75: auth.NewKubernetesAuth(vaultRole)
NewKubernetesAuth ==
  /\ bpc = "L72"
  /\ trace' = Append(trace, [fn |-> "NewKubernetesAuth", arg |-> loc.vaultRole])
  /\ \E ok \in BOOLEAN :
       IF ok
       THEN /\ loc' = [loc EXCEPT !.k8sAuth = [roleName |-> loc.vaultRole]]
            /\ bpc' = "L77"
            /\ UNCHANGED << vm, bootErr >>
       ELSE /\ bootErr' = Errorf("Vault: unable to initialize Kubernetes auth method",
                                 <<"NewKubernetesAuth failed">>)
            /\ vm' = NilPtr
            /\ bpc' = "returned"
            /\ UNCHANGED loc
  /\ UNCHANGED << cfg, kv, ret, ensured, again, concVars >>

\* lines 77-80: client.Auth().Login(ctx, k8sAuth); the library may hand
\* back session info, or no session info and no error
Login ==
  /\ bpc = "L77"
  /\ trace' = Append(trace, [fn |-> "Login", arg |-> loc.k8sAuth.roleName])
  /\ \E outcome \in {"err", "nil", "info"} :
       IF outcome = "err"
       THEN /\ bootErr' = Errorf("Vault: unable to log in with Kubernetes auth",
                                 <<"Login failed">>)
            /\ vm' = NilPtr
            /\ bpc' = "returned"
            /\ UNCHANGED loc
       ELSE /\ loc' = [loc EXCEPT !.authInfo =
                         IF outcome = "info"
                         THEN [role |-> loc.k8sAuth.roleName,
                               address |-> loc.client.address]
                         ELSE NilPtr]
            /\ bpc' = "L81"
            /\ UNCHANGED << vm, bootErr >>
  /\ UNCHANGED << cfg, kv, ret, ensured, again, concVars >>

\* lines 81-89 without the nil test
CheckAuthInfo_noNilTest ==
  /\ bpc = "L81"
  /\ vm' = [vaultClient |-> loc.client, secretPath |-> loc.vaultSecretPath,
            kvMount |-> loc.vaultKVMount]
  /\ bootErr' = Nil
  /\ bpc' = "returned"
  /\ UNCHANGED << cfg, loc, trace, kv, ret, ensured, again, concVars >>

\* lines 81-89: fail on absent session info, else return the handle
CheckAuthInfo ==
  /\ bpc = "L81"
  /\ IF loc.authInfo = NilPtr
     THEN /\ bootErr' = <<"Vault: no auth info was returned after login">>
          /\ vm' = NilPtr
     ELSE /\ vm' = [vaultClient |-> loc.client, secretPath |-> loc.vaultSecretPath,
                    kvMount |-> loc.vaultKVMount]
          /\ bootErr' = Nil
  /\ bpc' = "returned"
  /\ UNCHANGED << cfg, loc, trace, kv, ret, ensured, again, concVars >>

newVault == Resolve \/ NewClient \/ NewKubernetesAuth \/ Login \/ CheckAuthInfo

\* a caller holds a handle only after newVault returned one
Ready == bpc = "returned" /\ vm # NilPtr

(***************************************************************************)
(* EnsureSecret, LoadSecret and CloseClient called one at a time.          *)
(***************************************************************************)
\* whether a call repeats the operation and arguments of the call completed
\* right before it, that call having returned no error
Repeats(op, secretName, secretType, value) ==
  /\ ret.op = op /\ ret.secretName = secretName
  /\ ret.secretType = secretType /\ ret.value = value
  /\ ret.err = Nil

\* the record EnsureSecret sends, lines 97-100
Payload(secretValue, secretType) ==
  (DefaultSecretKey :> Str(secretValue)) @@ ("secret_type" :> Str(secretType))

\* lines 93-111 with the Put error dropped
EnsureSecret_swallow(secretName, value, secretType, up) ==
  LET secretValue == getSecretStrValue(value, secretType)
      payload == Payload(secretValue, secretType)
      path == getSecretPath(vm.secretPath, secretName)
      put == KVPut(kv, vm.kvMount, path, payload, up)
  IN /\ Ready
     /\ kv' = put.store
     /\ ret' = [op |-> "EnsureSecret", secretName |-> secretName,
                secretType |-> secretType, value |-> value,
                remote |-> << [op |-> "Put", mount |-> vm.kvMount, path |-> path,
                               ok |-> put.err = Nil] >>,
                bytes |-> <<>>, err |-> Nil]
     /\ ensured' = IF put.err = Nil
                   THEN Upsert(ensured, KVKey(vm.kvMount, path),
                               [value |-> value, secretType |-> secretType])
                   ELSE ensured
     /\ again' = Repeats("EnsureSecret", secretName, secretType, value)
     /\ UNCHANGED << bootVars, concVars >>

\* EnsureSecret ensures a single secret is stored in HC Vault, lines 93-111
EnsureSecret(secretName, value, secretType, up) ==
  LET secretValue == getSecretStrValue(value, secretType)
      payload == Payload(secretValue, secretType)
      path == getSecretPath(vm.secretPath, secretName)
      put == KVPut(kv, vm.kvMount, path, payload, up)
  IN /\ Ready
     /\ kv' = put.store
     /\ ret' = [op |-> "EnsureSecret", secretName |-> secretName,
                secretType |-> secretType, value |-> value,
                remote |-> << [op |-> "Put", mount |-> vm.kvMount, path |-> path,
                               ok |-> put.err = Nil] >>,
                bytes |-> <<>>,
                err |-> IF put.err # Nil THEN WithStack(put.err) ELSE Nil]
     /\ ensured' = IF put.err = Nil
                   THEN Upsert(ensured, KVKey(vm.kvMount, path),
                               [value |-> value, secretType |-> secretType])
                   ELSE ensured
     /\ again' = Repeats("EnsureSecret", secretName, secretType, value)
     /\ UNCHANGED << bootVars, concVars >>

\* lines 120-135 decoding by the record's secret_type field
LoadResult_byStoredType(got, secretType) ==
  IF got.err # Nil THEN [bytes |-> <<>>, err |-> Nil]
  ELSE IF ~IsString(got.secret.Data, DefaultSecretKey)
    THEN [bytes |-> <<>>, err |-> Nil]
    ELSE getSecretByteValue(got.secret.Data[DefaultSecretKey].s,
                            IF "secret_type" \in DOMAIN got.secret.Data
                            THEN got.secret.Data["secret_type"].s
                            ELSE secretType)

\* lines 120-135 with the read error returned (the code line 121 comments out)
LoadResult_strict(got, secretType) ==
  IF got.err # Nil THEN [bytes |-> <<>>, err |-> WithStack(got.err)]
  ELSE IF ~IsString(got.secret.Data, DefaultSecretKey)
    THEN [bytes |-> <<>>, err |-> Nil]
    ELSE getSecretByteValue(got.secret.Data[DefaultSecretKey].s, secretType)

\* what LoadSecret returns for the outcome of its Get, lines 120-135
LoadResult(got, secretType) ==
  IF got.err # Nil THEN [bytes |-> <<>>, err |-> Nil]
  ELSE IF ~IsString(got.secret.Data, DefaultSecretKey)
    THEN [bytes |-> <<>>, err |-> Nil]
    ELSE getSecretByteValue(got.secret.Data[DefaultSecretKey].s, secretType)

\* LoadSecret read secret from HC vault, lines 114-137
LoadSecret(secretName, secretType, up) ==
  LET path == getSecretPath(vm.secretPath, secretName)
      got == KVGet(kv, vm.kvMount, path, up)
      out == LoadResult(got, secretType)
  IN /\ Ready
     /\ ret' = [op |-> "LoadSecret", secretName |-> secretName,
                secretType |-> secretType, value |-> <<>>,
                remote |-> << [op |-> "Get", mount |-> vm.kvMount, path |-> path,
                               ok |-> got.err = Nil] >>,
                bytes |-> out.bytes, err |-> out.err]
     /\ again' = Repeats("LoadSecret", secretName, secretType, <<>>)
     /\ UNCHANGED << bootVars, kv, ensured, concVars >>

\* CloseClient empty function to fulfil interface functions, line 140
CloseClient ==
  /\ Ready
  /\ ret' = [NoCall EXCEPT !.op = "CloseClient"]
  /\ again' = Repeats("CloseClient", "", "", <<>>)
  /\ UNCHANGED << bootVars, kv, ensured, concVars >>

(***************************************************************************)
(* EnsureSecret called from several goroutines on one handle: lines 95-102 *)
(* touch only the call's locals, line 104 is the one remote call.          *)
(***************************************************************************)
\* lines 95-102: encode, build the payload, compute the path
EnsureBegin(c, secretName, value, secretType) ==
  /\ Ready
  /\ pc[c] = "idle"
  /\ frame' = [frame EXCEPT ![c] =
       [secretName |-> secretName, value |-> value, secretType |-> secretType,
        payload |-> Payload(getSecretStrValue(value, secretType), secretType),
        path |-> getSecretPath(vm.secretPath, secretName),
        up |-> TRUE, err |-> Nil]]
  /\ pc' = [pc EXCEPT ![c] = "L104"]
  /\ UNCHANGED << bootVars, kv, ret, ensured, again, lastPut >>

\* line 104 sending the value field alone, merged into the record found
EnsurePut_valueOnly(c) ==
  /\ pc[c] = "L104"
  /\ \E up \in BOOLEAN :
       LET key == KVKey(vm.kvMount, frame[c].path)
           data == IF key \in DOMAIN kv
                   THEN [f \in DOMAIN kv[key] \cup {DefaultSecretKey} |->
                           IF f = DefaultSecretKey
                           THEN frame[c].payload[DefaultSecretKey]
                           ELSE kv[key][f]]
                   ELSE frame[c].payload
           put == KVPut(kv, vm.kvMount, frame[c].path, data, up)
       IN /\ kv' = put.store
          /\ frame' = [frame EXCEPT ![c].up = up, ![c].err = put.err]
          /\ lastPut' = IF up
                        THEN Upsert(lastPut, KVKey(vm.kvMount, frame[c].path), c)
                        ELSE lastPut
  /\ pc' = [pc EXCEPT ![c] = "L105"]
  /\ UNCHANGED << bootVars, ret, ensured, again >>

\* line 104: the one remote upsert, applied by the backend as a whole
EnsurePut(c) ==
  /\ pc[c] = "L104"
  /\ \E up \in BOOLEAN :
       LET put == KVPut(kv, vm.kvMount, frame[c].path, frame[c].payload, up)
       IN /\ kv' = put.store
          /\ frame' = [frame EXCEPT ![c].up = up, ![c].err = put.err]
          /\ lastPut' = IF up
                        THEN Upsert(lastPut, KVKey(vm.kvMount, frame[c].path), c)
                        ELSE lastPut
  /\ pc' = [pc EXCEPT ![c] = "L105"]
  /\ UNCHANGED << bootVars, ret, ensured, again >>

\* lines 105-109
EnsureReturn(c) ==
  /\ pc[c] = "L105"
  /\ frame' = [frame EXCEPT ![c].err =
                 IF frame[c].err # Nil THEN WithStack(frame[c].err) ELSE Nil]
  /\ pc' = [pc EXCEPT ![c] = "done"]
  /\ UNCHANGED << bootVars, kv, ret, ensured, again, lastPut >>

(***************************************************************************)
(* Inputs.                                                                 *)
(***************************************************************************)
\* the secret-type tags callers pass: the three known ones, unset, unknown
Types == {TypeKeystore, TypePEM, TypePassword, "", "ssh"}

\* binary payloads: the prefixes of two byte patterns, up to MaxLen bytes
PatternUp(n) == [i \in 1..n |-> i]
PatternDown(n) == [i \in 1..n |-> 256 - i]
BinPayloads == {PatternUp(n) : n \in 0..MaxLen} \cup {PatternDown(n) : n \in 1..MaxLen}

\* text payloads: "AQ==", "-" and a two-byte UTF-8 letter
TextPayloads == { <<65, 81, 61, 61>>, <<45>>, <<195, 169>> }

Payloads == BinPayloads \cup TextPayloads
SmallPayloads == { <<>>, <<1, 2, 3>> }

DefaultConfig ==
  [VaultAddress |-> "", VaultKubeRole |-> "", VaultKVSecretPath |-> "",
   VaultKVMount |-> ""]
CustomConfig ==
  [VaultAddress |-> "https://vault:8200", VaultKubeRole |-> "agent",
   VaultKVSecretPath |-> "team/app", VaultKVMount |-> "kv"]
AllConfigs ==
  [VaultAddress : {"", "https://vault:8200"}, VaultKubeRole : {"", "agent"},
   VaultKVSecretPath : {"", "team/app"}, VaultKVMount : {"", "kv"}]

\* records another writer may have left at the adapter's path
ForeignData ==
  { [secret_type |-> Str(TypePEM)],
    [value |-> Num, secret_type |-> Str(TypeKeystore)],
    [value |-> Str(<<65, 66>>), secret_type |-> Str(TypeKeystore)],
    [value |-> Str(<<65, 81, 61, 61, 10>>), secret_type |-> Str(TypePEM)],
    [value |-> Str(<<65, 81, 61, 61, 65>>), secret_type |-> Str("")] }

\* the stores newVault's caller may find: empty, or one foreign record at
\* the default mount and path of the given name
SeedStores(secretName) ==
  {EmptyStore} \cup
  { Upsert(EmptyStore,
           KVKey(DefaultKVMount, getSecretPath(DefaultVaultKVSecretPath, secretName)),
           d) : d \in ForeignData }

(***************************************************************************)
(* Specifications.                                                         *)
(***************************************************************************)
InitWith(Configs, Stores) ==
  /\ cfg \in Configs
  /\ bpc = "L34"
  /\ loc = NoLocals
  /\ trace = <<>>
  /\ vm = NilPtr
  /\ bootErr = Nil
  /\ kv \in Stores
  /\ ret = NoCall
  /\ ensured = EmptyStore
  /\ again = FALSE
  /\ pc = [c \in Callers |-> "idle"]
  /\ frame = [c \in Callers |-> NoFrame]
  /\ lastPut = EmptyStore

\* one caller, one name, every payload and type, default configuration
Init == InitWith({DefaultConfig}, SeedStores("keystore1"))

Next ==
  \/ newVault
  \/ \E v \in Payloads, t \in Types, up \in BOOLEAN :
       EnsureSecret("keystore1", v, t, up)
  \/ \E t \in Types, up \in BOOLEAN : LoadSecret("keystore1", t, up)
  \/ CloseClient

Spec == Init /\ [][Next]_vars

\* one caller, several names, two configurations
PathNames == {"a", "b", "a/b"}
PathTypes == {TypeKeystore, TypePEM}

InitPaths == InitWith({DefaultConfig, CustomConfig}, {EmptyStore})

NextPaths ==
  \/ newVault
  \/ \E n \in PathNames, v \in SmallPayloads, t \in PathTypes, up \in BOOLEAN :
       EnsureSecret(n, v, t, up)
  \/ \E n \in PathNames, t \in PathTypes, up \in BOOLEAN : LoadSecret(n, t, up)
  \/ CloseClient

SpecPaths == InitPaths /\ [][NextPaths]_vars

\* every configuration, then a few calls on the handle
InitBoot == InitWith(AllConfigs, {EmptyStore})

NextBoot ==
  \/ newVault
  \/ \E v \in SmallPayloads, t \in PathTypes, up \in BOOLEAN :
       EnsureSecret("tls-cert", v, t, up)
  \/ \E t \in PathTypes, up \in BOOLEAN : LoadSecret("tls-cert", t, up)
  \/ CloseClient

SpecBoot == InitBoot /\ [][NextBoot]_vars

\* several goroutines, each calling EnsureSecret once on the shared handle
ConcNames == {"a", "b"}

InitConc == InitWith({DefaultConfig}, {EmptyStore})

NextConc ==
  \/ newVault
  \/ \E c \in Callers, n \in ConcNames, v \in SmallPayloads, t \in PathTypes :
       EnsureBegin(c, n, v, t)
  \/ \E c \in Callers : EnsurePut(c)
  \/ \E c \in Callers : EnsureReturn(c)

SpecConc == InitConc /\ [][NextConc]_vars

(***************************************************************************)
(* Properties.                                                             *)
(***************************************************************************)
KnownTypes == {TypeKeystore, TypePEM, TypePassword}
Base64Class(t) == t \notin {TypePEM, TypePassword}

\* the remote key of the secret name of the last completed call
RetKey == KVKey(vm.kvMount, vm.secretPath \o "/" \o ret.secretName)

IsLoad == ret.op = "LoadSecret"
IsEnsure == ret.op = "EnsureSecret"

\* the last completed call is a load of a name an EnsureSecret wrote last,
\* with the type tag of that EnsureSecret
LoadAfterStore ==
  /\ IsLoad
  /\ RetKey \in DOMAIN ensured
  /\ ensured[RetKey].secretType = ret.secretType

ValidUTF8(s) == ToValidUTF8(s) = s

\* C1 as stated: a load that follows a successful store of (N, P, T), with
\* no other store to N in between, reads the path prefix/N and returns
\* exactly P and no error.
C1_RoundTripAlways ==
  LoadAfterStore =>
    /\ ret.remote = << [op |-> "Get", mount |-> vm.kvMount,
                        path |-> vm.secretPath \o "/" \o ret.secretName,
                        ok |-> TRUE] >>
    /\ ret.bytes = ensured[RetKey].value
    /\ ret.err = Nil

\* C1 amended: every EnsureSecret and LoadSecret of a name addresses the one
\* path prefix/N; decode(encode(P, T), T) = P for every payload and type;
\* and a load that follows a successful store of (N, P, T) returns exactly P
\* and no error provided its remote read succeeds and, for the types stored
\* as raw text (PEM, password), P is valid UTF-8.
C1_RoundTrip ==
  /\ (IsLoad \/ IsEnsure) =>
       /\ Len(ret.remote) = 1
       /\ ret.remote[1].mount = vm.kvMount
       /\ ret.remote[1].path = vm.secretPath \o "/" \o ret.secretName
  /\ IsEnsure =>
       getSecretByteValue(getSecretStrValue(ret.value, ret.secretType), ret.secretType)
         = [bytes |-> ret.value, err |-> Nil]
  /\ ( /\ LoadAfterStore
       /\ ret.remote[1].ok
       /\ (Base64Class(ret.secretType) \/ ValidUTF8(ensured[RetKey].value)) )
     => (ret.bytes = ensured[RetKey].value /\ ret.err = Nil)

C1_Witness ==
  /\ LoadAfterStore
  /\ ret.remote[1].ok
  /\ ret.secretType = TypeKeystore
  /\ Len(ret.bytes) = MaxLen
  /\ ret.bytes = ensured[RetKey].value

\* C2: LoadSecret returns the empty byte sequence and no error whenever its
\* remote read fails (transport, authorization, nothing stored at the path)
\* or the record read has no value field or one that is not a string.
C2_SoftMiss ==
  ( /\ IsLoad
    /\ \/ ~ret.remote[1].ok
       \/ RetKey \notin DOMAIN kv
       \/ ~IsString(kv[RetKey], DefaultSecretKey) )
  => (ret.bytes = <<>> /\ ret.err = Nil)

C2_Witness ==
  /\ IsLoad
  /\ ~ret.remote[1].ok
  /\ RetKey \in DOMAIN kv
  /\ IsString(kv[RetKey], DefaultSecretKey)
  /\ kv[RetKey][DefaultSecretKey].s # <<>>
  /\ ret.bytes = <<>>
  /\ ret.err = Nil

\* RFC 4648 base64 text, line breaks aside: groups of four characters of
\* the alphabet, the last group ending in at most two '='
ValidBase64(str) ==
  LET s == StripNewlines(str)
      n == Len(s)
  IN /\ n % 4 = 0
     /\ \A i \in 1..n :
          \/ B64Val(s[i]) # 255
          \/ s[i] = PadChar /\ (i = n \/ (i = n - 1 /\ s[n] = PadChar))

\* C3: when the read succeeds and the value field is a string that is not
\* valid base64, LoadSecret with type keystore or an unrecognized type
\* returns a non-nil error; with type PEM or password it never returns one.
C3_DecodeFailure ==
  /\ ( /\ IsLoad
       /\ ret.remote[1].ok
       /\ IsString(kv[RetKey], DefaultSecretKey)
       /\ ~ValidBase64(kv[RetKey][DefaultSecretKey].s)
       /\ Base64Class(ret.secretType) )
     => ret.err # Nil
  /\ (IsLoad /\ ~Base64Class(ret.secretType)) => ret.err = Nil

C3_Witness ==
  /\ IsLoad
  /\ ret.remote[1].ok
  /\ ret.secretType = TypeKeystore
  /\ IsString(kv[RetKey], DefaultSecretKey)
  /\ ~ValidBase64(kv[RetKey][DefaultSecretKey].s)
  /\ ret.err # Nil

\* C5: with a type tag other than keystore, PEM and password, EnsureSecret
\* stores the value string it stores for keystore and LoadSecret returns the
\* bytes and error it returns for keystore.
C5_DefaultAsKeystore ==
  /\ (IsEnsure /\ ret.secretType \notin KnownTypes /\ ret.remote[1].ok) =>
       /\ kv[RetKey][DefaultSecretKey]
            = Marshal(Payload(getSecretStrValue(ret.value, TypeKeystore),
                              TypeKeystore))[DefaultSecretKey]
  /\ (IsLoad /\ ret.secretType \notin KnownTypes) =>
       [bytes |-> ret.bytes, err |-> ret.err]
         = LoadResult(KVGet(kv, vm.kvMount, ret.remote[1].path, ret.remote[1].ok),
                      TypeKeystore)

C5_Witness ==
  /\ IsLoad
  /\ ret.secretType = ""
  /\ ret.remote[1].ok
  /\ RetKey \in DOMAIN ensured
  /\ ensured[RetKey].secretType = "ssh"
  /\ ret.bytes = ensured[RetKey].value
  /\ Len(ret.bytes) > 0

\* the record at a key with its secret_type field set to t
Retagged(data, t) ==
  [f \in DOMAIN data \cup {"secret_type"} |->
     IF f = "secret_type" THEN Str(t) ELSE data[f]]

\* C10: what LoadSecret(N, T) returns is decided by the stored value string
\* and T alone: it is the same whatever the record's secret_type field
\* holds.  So a payload stored under one encoding class and loaded under the
\* other comes back as the base64 text of the payload (stored base64,
\* loaded raw) or as the base64 decoding of the stored text, bytes or
\* error (stored raw, loaded base64).
C10_CallerTypeDecides ==
  /\ (IsLoad /\ ret.remote[1].ok /\ RetKey \in DOMAIN kv) =>
       \A t \in Types :
         LoadResult([secret |-> [Data |-> Retagged(kv[RetKey], t)], err |-> Nil],
                    ret.secretType)
           = [bytes |-> ret.bytes, err |-> ret.err]
  /\ ( /\ IsLoad /\ ret.remote[1].ok /\ RetKey \in DOMAIN ensured
       /\ Base64Class(ensured[RetKey].secretType)
       /\ ~Base64Class(ret.secretType) )
     => (ret.bytes = EncodeToString(ensured[RetKey].value) /\ ret.err = Nil)
  /\ ( /\ IsLoad /\ ret.remote[1].ok /\ RetKey \in DOMAIN ensured
       /\ ~Base64Class(ensured[RetKey].secretType)
       /\ Base64Class(ret.secretType) )
     => [bytes |-> ret.bytes, err |-> ret.err]
          = DecodeString(ToValidUTF8(ensured[RetKey].value))

\* a payload stored as keystore and loaded as PEM comes back changed
C10_Witness ==
  /\ IsLoad /\ ret.remote[1].ok /\ RetKey \in DOMAIN ensured
  /\ ensured[RetKey].secretType = TypeKeystore
  /\ ret.secretType = TypePEM
  /\ ret.err = Nil
  /\ ret.bytes # ensured[RetKey].value
  /\ kv[RetKey]["secret_type"] = Str(TypeKeystore)

\* the key EnsureSecret or LoadSecret addresses for the call recorded in r
CallKey(r) == KVKey(vm.kvMount, vm.secretPath \o "/" \o r.secretName)

\* C4: an EnsureSecret that repeats the name, payload and type of the
\* successful EnsureSecret right before it leaves every remote record as it
\* was, so two calls in a row leave what one call leaves; and no
\* EnsureSecret creates or changes a record at a path other than prefix/N.
C4_Idempotent ==
  [][ /\ ( /\ IsEnsure /\ ret.err = Nil
           /\ ret'.op = "EnsureSecret"
           /\ ret'.secretName = ret.secretName
           /\ ret'.value = ret.value
           /\ ret'.secretType = ret.secretType )
         => kv' = kv
      /\ \A k \in DOMAIN kv' :
           (k \notin DOMAIN kv \/ kv'[k] # kv[k])
             => (ret'.op = "EnsureSecret" /\ k = CallKey(ret)') ]_vars

C4_Witness ==
  /\ IsEnsure
  /\ again
  /\ ret.err = Nil
  /\ ret.value # <<>>
  /\ DOMAIN kv = {RetKey}
  /\ kv[RetKey] = Payload(getSecretStrValue(ret.value, ret.secretType), ret.secretType)

BootSteps == << "NewClient", "NewKubernetesAuth", "Login" >>
TraceFns == [i \in 1..Len(trace) |-> trace[i].fn]

\* C6: newVault returns a handle only when the client construction, the
\* auth-method construction and the login succeeded and the login returned
\* session info; when one of the four fails newVault returns an error and
\* no handle, and it has made each library call at most once and none after
\* the one that failed.
C6_FailClosed ==
  /\ vm # NilPtr =>
       /\ bpc = "returned"
       /\ bootErr = Nil
       /\ TraceFns = BootSteps
       /\ loc.client # NilPtr
       /\ loc.k8sAuth # NilPtr
       /\ loc.authInfo # NilPtr
  /\ bpc = "returned" =>
       /\ (vm = NilPtr) <=> (bootErr # Nil)
       /\ (loc.client = NilPtr \/ loc.k8sAuth = NilPtr \/ loc.authInfo = NilPtr)
            => (vm = NilPtr /\ bootErr # Nil)
       /\ loc.client = NilPtr => TraceFns = << "NewClient" >>
       /\ (loc.client # NilPtr /\ loc.k8sAuth = NilPtr)
            => TraceFns = << "NewClient", "NewKubernetesAuth" >>
  /\ TraceFns = SubSeq(BootSteps, 1, Len(trace))

C6_Witness ==
  /\ bpc = "returned"
  /\ vm = NilPtr
  /\ loc.client # NilPtr
  /\ loc.k8sAuth # NilPtr
  /\ bootErr = << "Vault: no auth info was returned after login" >>
  /\ TraceFns = BootSteps

OverrideOrDefault(configured, default) ==
  IF configured # "" THEN configured ELSE default

Applied(c) == pc[c] \in {"L105", "done"} /\ frame[c].up
FrameKey(c) == KVKey(vm.kvMount, frame[c].path)

\* C9: under every interleaving of concurrent EnsureSecret calls, each
\* remote record is the whole (value, secret_type) pair one call sent,
\* namely the pair of the call whose Put the backend applied last at that
\* path; and a call returns an error only when its own Put failed, whatever
\* the other calls wrote.
C9_LastWriteWins ==
  /\ \A k \in DOMAIN kv :
       /\ \E c \in Callers : Applied(c) /\ FrameKey(c) = k /\ kv[k] = frame[c].payload
       /\ k \in DOMAIN lastPut
       /\ Applied(lastPut[k])
       /\ FrameKey(lastPut[k]) = k
       /\ kv[k] = frame[lastPut[k]].payload
  /\ \A c \in Callers :
       pc[c] \in {"L105", "done"} => ((frame[c].err = Nil) <=> frame[c].up)

C9_Witness ==
  /\ \A c \in Callers : pc[c] = "done" /\ frame[c].err = Nil
  /\ \E c1, c2 \in Callers :
       /\ c1 # c2
       /\ frame[c1].path = frame[c2].path
       /\ frame[c1].payload["value"] # frame[c2].payload["value"]
       /\ frame[c1].payload["secret_type"] # frame[c2].payload["secret_type"]
       /\ lastPut[FrameKey(c1)] = c1
       /\ kv[FrameKey(c1)] = frame[c1].payload

==========================================================================
